---- MODULE Spec2Model ----
(***************************************************************************)
(* Model of the todo canister src/todo_api_backend/src/lib.rs.             *)
(*                                                                         *)
(* The canister keeps two pieces of state, NEXT_TODO (the id counter) and  *)
(* TODO_BY_USER (caller -> list of todos), and exposes one query           *)
(* (get_todos) and three update calls (add_todo, update_todo,              *)
(* delete_todo).  Each call is one message and runs to completion.         *)
(*                                                                         *)
(* A failed assert! panics.  In a canister a panic is a trap, and the      *)
(* state changes of a message that traps are discarded.  The call bodies   *)
(* below are written in the order of the code (add_todo advances the       *)
(* counter before it checks the quotas); CallResult applies the rollback.  *)
(*                                                                         *)
(* The three limits are scaled down from 1000 / 500 / 1000 so that the     *)
(* quota cases are reached by exhaustive search.                           *)
(***************************************************************************)
EXTENDS Integers, Sequences, FiniteSets, TLC

\* lib.rs:19-21, scaled
MAX_USERS == 2
MAX_TODO_PER_USER == 3
MAX_TODO_CHARS == 1

\* Bound of the search: add_todo is not called once NEXT_TODO has reached MaxId.
MaxId == 4

\* The callers (PrincipalName values) of the search: one more than MAX_USERS.
Principals == {"p1", "p2", "p3"}

\* The task arguments tried: two texts of MAX_TODO_CHARS characters and one of
\* MAX_TODO_CHARS + 1.  A task is a sequence of characters.
Tasks == {<<"h">>, <<"w">>, <<"h", "w">>}

\* The id arguments tried by update_todo and delete_todo.
Ids == 0 .. (MaxId + 1)

VARIABLES
    NEXT_TODO,     \* lib.rs:23
    TODO_BY_USER,  \* lib.rs:24, a function from the callers present to sequences of Todo
    issued,        \* history: the ids given to todos by add_todo, in order
    last           \* history: the last call, its arguments and its outcome

vars == <<NEXT_TODO, TODO_BY_USER, issued, last>>

\* struct Todo
Todo(id, task) == [id |-> id, task |-> task]

\* The outcomes of a call: "ok", or the assertion that failed.
OK == "ok"
PayloadTooLarge == "PayloadTooLarge"
CapacityUsers == "CapacityExceeded:Users"
CapacityRecordsPerUser == "CapacityExceeded:RecordsPerUser"
InvalidId == "InvalidId"

\* The canister state as one value.
Store(next, todos) == [next |-> next, todos |-> todos]

\* task.chars().count()
chars_count(task) == Len(task)

\* assert!(task.chars().count() <= MAX_TODO_CHARS), lib.rs:84 and lib.rs:112
task_fits_off_by_one(task) == chars_count(task) <= MAX_TODO_CHARS + 1

task_fits(task) == chars_count(task) <= MAX_TODO_CHARS

get_user_count(todos) == Cardinality(DOMAIN todos)

is_id_valid_inclusive(id, todos) == id <= MAX_TODO_PER_USER * get_user_count(todos)

is_id_valid(id, todos) == id < MAX_TODO_PER_USER * get_user_count(todos)

\* assert!(user_count < MAX_USERS), lib.rs:125
can_add_user_inclusive(user_count) == user_count <= MAX_USERS

can_add_user(user_count) == user_count < MAX_USERS

\* assert!(user_todos.len() < MAX_TODO_PER_USER), lib.rs:129
has_room_inclusive(user_todos) == Len(user_todos) <= MAX_TODO_PER_USER

has_room(user_todos) == Len(user_todos) < MAX_TODO_PER_USER

\* get_todos: the caller's list, or the default (empty) list.
get_todos_reversed(todos, user) ==
    IF user \in DOMAIN todos
    THEN [i \in 1 .. Len(todos[user]) |-> todos[user][Len(todos[user]) + 1 - i]]
    ELSE <<>>

get_todos(todos, user) == IF user \in DOMAIN todos THEN todos[user] ELSE <<>>

\* Vec::retain(|item| item.id != todo_id)
retain_swap_remove(v, todo_id) ==
    IF \E i \in 1 .. Len(v) : v[i].id = todo_id
    THEN LET k == CHOOSE i \in 1 .. Len(v) : v[i].id = todo_id
         IN  IF k = Len(v) THEN SubSeq(v, 1, Len(v) - 1)
             ELSE SubSeq([v EXCEPT ![k] = v[Len(v)]], 1, Len(v) - 1)
    ELSE v

retain(v, todo_id) == SelectSeq(v, LAMBDA item : item.id # todo_id)

\* iter_mut().find(|t| t.id == id): the first position with that id, 0 if none.
find(v, id) ==
    IF \E i \in 1 .. Len(v) : v[i].id = id
    THEN CHOOSE i \in 1 .. Len(v) : v[i].id = id /\ \A j \in 1 .. (i - 1) : v[j].id # id
    ELSE 0

\* BTreeMap::entry(user).or_insert_with(|| vec![])
or_insert(todos, user) ==
    IF user \in DOMAIN todos THEN todos
    ELSE [u \in DOMAIN todos \cup {user} |-> IF u = user THEN <<>> ELSE todos[u]]

\* The outcome of running a body: err, and the state the body had reached.
Outcome(err, st) == [err |-> err, st |-> st]

\* Vec::push
push_front(v, todo) == <<todo>> \o v

push(v, todo) == Append(v, todo)

\* Body of delete_todo, lib.rs:63-73.
delete_todo_body_reap(st, user, todo_id) ==
    IF ~is_id_valid(todo_id, st.todos) THEN Outcome(InvalidId, st)
    ELSE IF user \in DOMAIN st.todos
         THEN IF retain(st.todos[user], todo_id) = <<>>
              THEN Outcome(OK, [st EXCEPT !.todos = [u \in DOMAIN st.todos \ {user} |-> st.todos[u]]])
              ELSE Outcome(OK, [st EXCEPT !.todos[user] = retain(@, todo_id)])
         ELSE Outcome(OK, st)

delete_todo_body(st, user, todo_id) ==
    IF ~is_id_valid(todo_id, st.todos) THEN Outcome(InvalidId, st)
    ELSE IF user \in DOMAIN st.todos
         THEN Outcome(OK, [st EXCEPT !.todos[user] = retain(@, todo_id)])
         ELSE Outcome(OK, st)

\* Body of update_todo, lib.rs:82-96.
update_todo_body_move_to_end(st, user, id, task) ==
    IF ~task_fits(task) THEN Outcome(PayloadTooLarge, st)
    ELSE IF ~is_id_valid(id, st.todos) THEN Outcome(InvalidId, st)
    ELSE IF user \in DOMAIN st.todos /\ find(st.todos[user], id) # 0
         THEN Outcome(OK, [st EXCEPT !.todos[user] = Append(retain(@, id), Todo(id, task))])
         ELSE Outcome(OK, st)

update_todo_body_any_owner(st, user, id, task) ==
    IF ~task_fits(task) THEN Outcome(PayloadTooLarge, st)
    ELSE IF ~is_id_valid(id, st.todos) THEN Outcome(InvalidId, st)
    ELSE Outcome(OK, [st EXCEPT !.todos =
            [u \in DOMAIN st.todos |->
                [i \in 1 .. Len(st.todos[u]) |->
                    IF st.todos[u][i].id = id THEN Todo(id, task) ELSE st.todos[u][i]]]])

update_todo_body_gate_first(st, user, id, task) ==
    IF ~is_id_valid(id, st.todos) THEN Outcome(InvalidId, st)
    ELSE IF ~task_fits(task) THEN Outcome(PayloadTooLarge, st)
    ELSE IF user \in DOMAIN st.todos /\ find(st.todos[user], id) # 0
         THEN Outcome(OK, [st EXCEPT !.todos[user][find(st.todos[user], id)].task = task])
         ELSE Outcome(OK, st)

update_todo_body(st, user, id, task) ==
    IF ~task_fits(task) THEN Outcome(PayloadTooLarge, st)
    ELSE IF ~is_id_valid(id, st.todos) THEN Outcome(InvalidId, st)
    ELSE IF user \in DOMAIN st.todos /\ find(st.todos[user], id) # 0
         THEN Outcome(OK, [st EXCEPT !.todos[user][find(st.todos[user], id)].task = task])
         ELSE Outcome(OK, st)

\* The id add_todo takes from the counter: the counter is advanced, then read.
next_todo_id_stale(next) == next

next_todo_id_skip(next) == next + 2

next_todo_id(next) == next + 1

\* Body of add_todo, lib.rs:110-136.
add_todo_body(st, user, task) ==
    IF ~task_fits(task) THEN Outcome(PayloadTooLarge, st)
    ELSE
      LET todo_id == next_todo_id(st.next)
          st1 == [st EXCEPT !.next = todo_id]
          user_count == get_user_count(st1.todos)
      IN  IF user \notin DOMAIN st1.todos /\ ~can_add_user(user_count)
          THEN Outcome(CapacityUsers, st1)
          ELSE
            LET st2 == [st1 EXCEPT !.todos = or_insert(@, user)]
            IN  IF ~has_room(st2.todos[user])
                THEN Outcome(CapacityRecordsPerUser, st2)
                ELSE Outcome(OK,
                       [st2 EXCEPT !.todos[user] = push(@, Todo(todo_id, task))])

\* The state after a message: a message that trapped leaves the state it found.
CallResult_keep_partial(pre, out) == out.st

CallResult(pre, out) == IF out.err = OK THEN out.st ELSE pre

Cur == Store(NEXT_TODO, TODO_BY_USER)

Call(op, user, id, task, err, ret) ==
    [op |-> op, user |-> user, id |-> id, task |-> task, err |-> err, ret |-> ret]

Init ==
    /\ NEXT_TODO = 0
    /\ TODO_BY_USER = <<>>
    /\ issued = <<>>
    /\ last = Call("init", "none", 0, <<>>, OK, <<>>)

add_todo(user, task) ==
    /\ NEXT_TODO < MaxId
    /\ LET out == add_todo_body(Cur, user, task)
           post == CallResult(Cur, out)
           newId == IF out.err = OK THEN out.st.todos[user][Len(out.st.todos[user])].id ELSE 0
       IN  /\ NEXT_TODO' = post.next
           /\ TODO_BY_USER' = post.todos
           /\ issued' = IF out.err = OK THEN Append(issued, newId) ELSE issued
           /\ last' = Call("add", user, newId, task, out.err, <<>>)

update_todo(user, id, task) ==
    LET out == update_todo_body(Cur, user, id, task)
        post == CallResult(Cur, out)
    IN  /\ NEXT_TODO' = post.next
        /\ TODO_BY_USER' = post.todos
        /\ last' = Call("update", user, id, task, out.err, <<>>)
        /\ UNCHANGED issued

delete_todo(user, todo_id) ==
    LET out == delete_todo_body(Cur, user, todo_id)
        post == CallResult(Cur, out)
    IN  /\ NEXT_TODO' = post.next
        /\ TODO_BY_USER' = post.todos
        /\ last' = Call("delete", user, todo_id, <<>>, out.err, <<>>)
        /\ UNCHANGED issued

get_todos_call(user) ==
    /\ last' = Call("list", user, 0, <<>>, OK, get_todos(TODO_BY_USER, user))
    /\ UNCHANGED <<NEXT_TODO, TODO_BY_USER, issued>>

Next ==
    \/ \E user \in Principals, task \in Tasks : add_todo(user, task)
    \/ \E user \in Principals, id \in Ids, task \in Tasks : update_todo(user, id, task)
    \/ \E user \in Principals, id \in Ids : delete_todo(user, id)
    \/ \E user \in Principals : get_todos_call(user)

Spec == Init /\ [][Next]_vars

TypeOK ==
    /\ NEXT_TODO \in 0 .. MaxId
    /\ DOMAIN TODO_BY_USER \subseteq Principals

(***************************************************************************)
(* Helpers of the properties.                                              *)
(***************************************************************************)
Held(todos, user) == {get_todos(todos, user)[i].id : i \in 1 .. Len(get_todos(todos, user))}

StoreUnchanged == NEXT_TODO' = NEXT_TODO /\ TODO_BY_USER' = TODO_BY_USER

Range(f) == {f[i] : i \in DOMAIN f}

\* The records in the store, each with its owner and its position.
Slots == UNION {{<<u, i>> : i \in 1 .. Len(TODO_BY_USER[u])} : u \in DOMAIN TODO_BY_USER}

\* C1: the number of callers present in TODO_BY_USER is between 0 and
\* MAX_USERS in every reachable state.
C1_UserCountBounded ==
    /\ get_user_count(TODO_BY_USER) >= 0
    /\ get_user_count(TODO_BY_USER) <= MAX_USERS

\* An add has just brought the store to MAX_USERS callers.
C1_Witness ==
    /\ get_user_count(TODO_BY_USER) = MAX_USERS
    /\ last.op = "add" /\ last.err = OK
    /\ Len(TODO_BY_USER[last.user]) = 1

\* C2: every caller in the store holds at most MAX_TODO_PER_USER todos, the
\* bound being on the todos currently held.
C2_TodosPerUserBounded ==
    \A u \in DOMAIN TODO_BY_USER : Len(TODO_BY_USER[u]) <= MAX_TODO_PER_USER

\* A caller that had filled its quota and deleted a todo has added another one
\* and is at the quota again.
C2_Witness ==
    /\ last.op = "add" /\ last.err = OK
    /\ Len(TODO_BY_USER[last.user]) = MAX_TODO_PER_USER
    /\ Cardinality({i \in Range(issued) : i \notin Held(TODO_BY_USER, last.user)}) > 0
    /\ get_user_count(TODO_BY_USER) = 1

\* C3: every todo in the store has a task of at most MAX_TODO_CHARS characters,
\* whether add_todo or update_todo wrote it.
C3_TaskLengthBounded ==
    \A u \in DOMAIN TODO_BY_USER : \A i \in 1 .. Len(TODO_BY_USER[u]) :
        chars_count(TODO_BY_USER[u][i].task) <= MAX_TODO_CHARS

\* An update has just written a task of exactly MAX_TODO_CHARS characters into
\* a todo of the caller.
C3_Witness ==
    /\ last.op = "update" /\ last.err = OK
    /\ chars_count(last.task) = MAX_TODO_CHARS
    /\ Todo(last.id, last.task) \in Range(get_todos(TODO_BY_USER, last.user))

\* C4: the ids given to todos by successive successful adds are strictly
\* increasing, so no id is given twice, also not after its todo was deleted;
\* no two todos in the store, of one caller or of two, have the same id.
C4_IdsStrictlyIncreasing ==
    /\ \A i, j \in 1 .. Len(issued) : i < j => issued[i] < issued[j]
    /\ \A x \in Slots : TODO_BY_USER[x[1]][x[2]].id \in Range(issued)
    /\ \A x, y \in Slots :
          x # y => TODO_BY_USER[x[1]][x[2]].id # TODO_BY_USER[y[1]][y[2]].id

\* Three ids were issued, to two callers, after the first todo was deleted.
C4_Witness ==
    /\ Len(issued) = 3
    /\ get_user_count(TODO_BY_USER) = 2
    /\ \A u \in DOMAIN TODO_BY_USER : issued[1] \notin Held(TODO_BY_USER, u)
    /\ \A u \in DOMAIN TODO_BY_USER : Len(TODO_BY_USER[u]) = 1

C6_Original ==
    [][(last'.op = "add" /\ Len(get_todos(TODO_BY_USER, last'.user)) = MAX_TODO_PER_USER)
         => (last'.err = CapacityRecordsPerUser /\ StoreUnchanged)]_vars

\* C6 amended: an add with a task of at most MAX_TODO_CHARS characters by a
\* caller that holds MAX_TODO_PER_USER todos fails with
\* CapacityExceeded:RecordsPerUser, and with a longer task it fails with
\* PayloadTooLarge; in both cases TODO_BY_USER and NEXT_TODO are unchanged.
C6_FullUserAddRejected ==
    [][(last'.op = "add" /\ Len(get_todos(TODO_BY_USER, last'.user)) = MAX_TODO_PER_USER)
         => /\ last'.err = IF chars_count(last'.task) <= MAX_TODO_CHARS
                           THEN CapacityRecordsPerUser ELSE PayloadTooLarge
            /\ StoreUnchanged]_vars

\* An add by a caller at its quota was rejected for the quota.
C6_Witness ==
    /\ last.op = "add" /\ last.err = CapacityRecordsPerUser
    /\ Len(get_todos(TODO_BY_USER, last.user)) = MAX_TODO_PER_USER
    /\ chars_count(last.task) <= MAX_TODO_CHARS

\* C7: with a task within the limit, an add by a caller not in the store
\* succeeds when the store holds fewer than MAX_USERS callers and fails with
\* CapacityExceeded:Users when it holds MAX_USERS; an add by a caller in the
\* store never fails with CapacityExceeded:Users.
C7_UserAdmission ==
    [][(last'.op = "add" /\ chars_count(last'.task) <= MAX_TODO_CHARS)
         => /\ (last'.user \notin DOMAIN TODO_BY_USER
                  /\ get_user_count(TODO_BY_USER) < MAX_USERS)
               => (last'.err = OK /\ last'.user \in DOMAIN TODO_BY_USER')
            /\ (last'.user \notin DOMAIN TODO_BY_USER
                  /\ get_user_count(TODO_BY_USER) >= MAX_USERS)
               => last'.err = CapacityUsers
            /\ last'.user \in DOMAIN TODO_BY_USER => last'.err # CapacityUsers]_vars

\* The store holds MAX_USERS callers and the add of one more caller was
\* rejected.
C7_Witness ==
    /\ last.op = "add" /\ last.err = CapacityUsers
    /\ last.user \notin DOMAIN TODO_BY_USER
    /\ get_user_count(TODO_BY_USER) = MAX_USERS

\* The outcome of delete_todo(user, id) called twice in a row from state st.
DeleteTwice(st, user, id) ==
    LET o1 == delete_todo_body(st, user, id)
        s1 == CallResult(st, o1)
        o2 == delete_todo_body(s1, user, id)
        s2 == CallResult(s1, o2)
    IN  [err1 |-> o1.err, s1 |-> s1, err2 |-> o2.err, s2 |-> s2]

\* C8: for every caller and every id of a todo it holds, delete_todo called
\* twice removes the todo in the first call, the second call raises no
\* error and changes nothing, and the caller's list holds the id after neither.
C8_DeleteTwice ==
    \A u \in DOMAIN TODO_BY_USER : \A id \in Held(TODO_BY_USER, u) :
        LET r == DeleteTwice(Cur, u, id)
        IN  /\ r.err1 = OK
            /\ id \notin Held(r.s1.todos, u)
            /\ r.err2 = OK
            /\ r.s2 = r.s1
            /\ id \notin Held(r.s2.todos, u)

\* The outcome of add_todo(user, hello), update_todo(user, id, world) and
\* get_todos(user) in a row from state st.
RoundTrip(st, user, hello, world) ==
    LET o1 == add_todo_body(st, user, hello)
        s1 == CallResult(st, o1)
        id == IF o1.err = OK THEN s1.todos[user][Len(s1.todos[user])].id ELSE 0
        o2 == update_todo_body(s1, user, id, world)
        s2 == CallResult(s1, o2)
    IN  [err1 |-> o1.err, id |-> id, err2 |-> o2.err, list |-> get_todos(s2.todos, user)]

\* C9: in every state in which a caller holds no todos, a successful add of
\* "h" followed by an update of the new id to "w" and a list yields exactly
\* the one todo {id, "w"}.
C9_RoundTrip ==
    \A u \in Principals :
        (get_todos(TODO_BY_USER, u) = <<>> /\ NEXT_TODO < MaxId) =>
            LET r == RoundTrip(Cur, u, <<"h">>, <<"w">>)
            IN  r.err1 = OK => (r.err2 = OK /\ r.list = <<Todo(r.id, <<"w">>)>>)

\* C10: an update (with a task within the limit) or a delete with an id of
\* at least MAX_TODO_PER_USER times the number of callers in the store fails
\* with InvalidId, whoever calls and whether or not a todo has that id.
C10_LargeIdRejected ==
    [][(/\ last'.op \in {"update", "delete"}
        /\ last'.op = "update" => chars_count(last'.task) <= MAX_TODO_CHARS
        /\ last'.id >= MAX_TODO_PER_USER * get_user_count(TODO_BY_USER))
         => last'.err = InvalidId]_vars

\* A delete by the holder of a todo was rejected with InvalidId for that
\* todo's id.
C10_Witness ==
    /\ last.op = "delete" /\ last.err = InvalidId
    /\ last.id \in Held(TODO_BY_USER, last.user)
    /\ last.id >= MAX_TODO_PER_USER * get_user_count(TODO_BY_USER)

\* The callers other than user keep their entries and their lists in the step.
OthersUnchanged(user) ==
    \A u \in DOMAIN TODO_BY_USER :
        u # user => (u \in DOMAIN TODO_BY_USER' /\ TODO_BY_USER'[u] = TODO_BY_USER[u])

\* The list the store holds for user, read without get_todos.
ListOf(todos, user) == IF user \in DOMAIN todos THEN todos[user] ELSE <<>>

\* C11: a successful add by t of task x makes t's list its previous list with
\* one todo {id, x} appended at the end (the entry is created if absent), the
\* id is one that no todo has ever had, and every other caller's list is
\* unchanged.
C11_AddFrame ==
    [][(last'.op = "add" /\ last'.err = OK)
         => /\ DOMAIN TODO_BY_USER' = DOMAIN TODO_BY_USER \cup {last'.user}
            /\ Len(TODO_BY_USER'[last'.user]) = Len(ListOf(TODO_BY_USER, last'.user)) + 1
            /\ \A i \in 1 .. Len(ListOf(TODO_BY_USER, last'.user)) :
                  TODO_BY_USER'[last'.user][i] = TODO_BY_USER[last'.user][i]
            /\ TODO_BY_USER'[last'.user][Len(TODO_BY_USER'[last'.user])]
                  = [id |-> last'.id, task |-> last'.task]
            /\ last'.id \notin Range(issued)
            /\ OthersUnchanged(last'.user)]_vars

\* An add has appended a todo to a list that already held one, while another
\* caller holds a todo too.
C11_Witness ==
    /\ last.op = "add" /\ last.err = OK
    /\ Len(ListOf(TODO_BY_USER, last.user)) = 2
    /\ TODO_BY_USER[last.user][2].id = last.id
    /\ \E u \in DOMAIN TODO_BY_USER : u # last.user /\ Len(TODO_BY_USER[u]) = 1

\* C12: the id of every todo in the store passes is_id_valid, so the holder's
\* update or delete of it is never rejected with InvalidId.
C12_HeldIdsValid ==
    \A x \in Slots : is_id_valid(TODO_BY_USER[x[1]][x[2]].id, TODO_BY_USER)

Without(v, k) == [i \in 1 .. (Len(v) - 1) |-> IF i < k THEN v[i] ELSE v[i + 1]]

\* C14: a delete that passes the id gate removes from the caller's list
\* exactly the todo with that id, if there is one, and keeps the remaining
\* todos with their tasks in their previous order; otherwise it changes
\* nothing; the callers present and the counter are unchanged in both cases.
C14_DeleteFrame ==
    [][(last'.op = "delete" /\ last'.err = OK)
         => /\ NEXT_TODO' = NEXT_TODO
            /\ DOMAIN TODO_BY_USER' = DOMAIN TODO_BY_USER
            /\ OthersUnchanged(last'.user)
            /\ LET old == ListOf(TODO_BY_USER, last'.user)
                   new == ListOf(TODO_BY_USER', last'.user)
               IN  IF \E k \in 1 .. Len(old) : old[k].id = last'.id
                   THEN \E k \in 1 .. Len(old) : old[k].id = last'.id /\ new = Without(old, k)
                   ELSE new = old]_vars

\* A delete has removed the first of three todos of the caller; the two that
\* remain are the ones issued second and third, in that order.
C14_Witness ==
    /\ last.op = "delete" /\ last.err = OK
    /\ Len(issued) = 3 /\ last.id = issued[1]
    /\ Len(ListOf(TODO_BY_USER, last.user)) = 2
    /\ TODO_BY_USER[last.user][1].id = issued[2]
    /\ TODO_BY_USER[last.user][2].id = issued[3]

\* C15: a caller enters the store only in a successful add of its own, and a
\* caller in the store is never removed, so the number of callers never
\* decreases; a caller whose todos were all deleted stays with an empty list.
C15_UsersOnlyByAddNeverRemoved ==
    [][/\ DOMAIN TODO_BY_USER \subseteq DOMAIN TODO_BY_USER'
       /\ DOMAIN TODO_BY_USER' # DOMAIN TODO_BY_USER
            => /\ last'.op = "add" /\ last'.err = OK
               /\ DOMAIN TODO_BY_USER' = DOMAIN TODO_BY_USER \cup {last'.user}]_vars

\* The store is full, one of its callers has an empty list, and the add of
\* another caller was rejected with CapacityExceeded:Users.
C15_Witness ==
    /\ last.op = "add" /\ last.err = CapacityUsers
    /\ get_user_count(TODO_BY_USER) = MAX_USERS
    /\ \E u \in DOMAIN TODO_BY_USER : TODO_BY_USER[u] = <<>>

\* C16: NEXT_TODO starts at 0 and every successful add advances it by one and
\* gives the new todo the new value, so the k-th id issued is k, the counter
\* equals the number of ids issued (no other call changes it), and every id in
\* the store is between 1 and NEXT_TODO.
C16_CounterCountsIssuedIds ==
    /\ NEXT_TODO = Len(issued)
    /\ \A k \in 1 .. Len(issued) : issued[k] = k
    /\ \A x \in Slots : TODO_BY_USER[x[1]][x[2]].id \in 1 .. NEXT_TODO

\* Two ids were issued and then an update, a delete or a list was called.
C16_Witness ==
    /\ NEXT_TODO = 2 /\ issued = <<1, 2>>
    /\ last.op \in {"update", "delete", "list"} /\ last.err = OK

C18_TenantIsolation ==
    [][OthersUnchanged(last'.user)]_vars

\* An update or a delete with the id of another caller's todo passed the
\* asserts, and the other caller still holds that todo.
C18_Witness ==
    /\ last.op \in {"update", "delete"} /\ last.err = OK
    /\ \E u \in DOMAIN TODO_BY_USER :
          u # last.user /\ \E i \in 1 .. Len(TODO_BY_USER[u]) :
              TODO_BY_USER[u][i].id = last.id

\* C19: an id that passes is_id_valid passes it in every later state.
C19_GateMonotone ==
    [][\A id \in Ids : is_id_valid(id, TODO_BY_USER) => is_id_valid(id, TODO_BY_USER')]_vars

\* A delete has emptied the list of the only caller, and its id still passes
\* the gate.
C19_Witness ==
    /\ last.op = "delete" /\ last.err = OK
    /\ DOMAIN TODO_BY_USER = {last.user}
    /\ TODO_BY_USER[last.user] = <<>>
    /\ last.id \in Range(issued)
    /\ is_id_valid(last.id, TODO_BY_USER)

\* C20: an add with a task over the limit fails with PayloadTooLarge whatever
\* the quotas, an add by a caller not in the store never fails with
\* CapacityExceeded:RecordsPerUser, and an update with a task over the limit
\* fails with PayloadTooLarge also when its id does not pass the gate.
C20_CheckOrder ==
    [][/\ (last'.op \in {"add", "update"} /\ chars_count(last'.task) > MAX_TODO_CHARS)
            => last'.err = PayloadTooLarge
       /\ (last'.op = "add" /\ last'.user \notin DOMAIN TODO_BY_USER)
            => last'.err # CapacityRecordsPerUser]_vars

\* An update with a task over the limit and an id that does not pass the gate
\* was rejected with PayloadTooLarge.
C20_Witness ==
    /\ last.op = "update" /\ last.err = PayloadTooLarge
    /\ ~is_id_valid(last.id, TODO_BY_USER)
====
